---- MODULE Spec2Model ----
(***************************************************************************)
(* Model of agdb.py, the audiogames.net database scraper.                  *)
(*                                                                         *)
(* Strings are sequences of code points, so that Python's string order     *)
(* (sorted) and str.lower() are computed rather than assumed.  A dict is a *)
(* function from keys to strings; the empty dict is <<>>.                  *)
(*                                                                         *)
(* Spec      : one run of the crawl driver (the __main__ block).           *)
(* StoreSpec : the AgDB object driven through its methods in any order.    *)
(***************************************************************************)
EXTENDS Integers, Sequences, FiniteSets, TLC

VARIABLES
    pc,          \* position of the driver in __main__ ("api" under StoreSpec)
    games,       \* AgDB.games: the listing, a sequence of [id, db_url]
    i,           \* index in games of the item the for loop is at
    g,           \* the game object in hand: [id, db_url, info]
    errors,      \* the driver's error counter
    games_json,  \* AgDB.games_json: the in-memory collection
    file,        \* the snapshot file: [exists, text]
    saves,       \* number of calls of save_game_json made so far
    fetched,     \* indices of the items whose detail page was requested
    nfailed,     \* number of items whose parse raised an exception
    intr,        \* index of the item during which an interrupt arrived, or 0
    json_game,   \* update_if_needed's local json_game (the list of matches)
    d,           \* update_if_needed's local diff
    query,       \* the identifier passed to the last get_game call
    result,      \* outcome (return or raise) of the last method call
    last,        \* name of the last method called
    ops,         \* number of method calls made under StoreSpec
    html,        \* AgDB._html: the listing document handed to AgDB.parse
    page,        \* the detail page handed to game.parse: [rows, nodes]
    heading,     \* game.parse's local heading: an index in page.nodes, 0 for None
    description, \* game.parse's local description
    ppc          \* position inside AgDB.parse or game.parse under PageSpec

vars == <<pc, games, i, g, errors, games_json, file, saves, fetched, nfailed,
          intr, json_game, d, query, result, last, ops,
          html, page, heading, description, ppc>>

\* the locals of the two parsers
pvars == <<html, page, heading, description, ppc>>

(***************************************************************************)
(* Bounds                                                                  *)
(***************************************************************************)
MaxItems == 10
MaxOps == 4
MaxOptions == 3
MaxBlocks == 3
MaxRows == 2

(***************************************************************************)
(* Strings                                                                 *)
(***************************************************************************)
S_A == <<65>>
S_a == <<97>>
S_b == <<98>>
S_x == <<120>>
S_y == <<121>>
S_z == <<122>>

Ids == {S_A, S_a, S_b}

RECURSIVE StrLess(_, _)
StrLess(s, t) ==
    IF t = <<>> THEN FALSE
    ELSE IF s = <<>> THEN TRUE
    ELSE IF s[1] < t[1] THEN TRUE
    ELSE IF s[1] > t[1] THEN FALSE
    ELSE StrLess(Tail(s), Tail(t))

lower(s) == [k \in DOMAIN s |-> IF s[k] \in 65..90 THEN s[k] + 32 ELSE s[k]]

EmptyDict == <<>>

\* urllib.parse.urlencode({"id": id}): quote_plus of the value (ASCII)
HexDigit(n) == IF n < 10 THEN 48 + n ELSE 55 + n
quote_char(c) ==
    IF c \in (48..57) \cup (65..90) \cup (97..122) \cup {45, 46, 95, 126}
    THEN <<c>>
    ELSE IF c = 32 THEN <<43>>
    ELSE <<37, HexDigit(c \div 16), HexDigit(c % 16)>>
RECURSIVE quote_plus(_)
quote_plus(s) == IF s = <<>> THEN <<>> ELSE quote_char(Head(s)) \o quote_plus(Tail(s))
urlencode_id(id) == <<105, 100, 61>> \o quote_plus(id)

S_http == <<104, 116, 116, 112>>
startswith(s, prefix) ==
    Len(s) >= Len(prefix) /\ SubSeq(s, 1, Len(prefix)) = prefix

\* urljoin(base, url) for a base that is None or a site root ending in "/"
\* and a url that is a path on that site
base_url == <<104, 116, 116, 112, 115, 58, 47, 47, 97, 117, 100, 105, 111, 103, 97, 109, 101, 115, 46, 110, 101, 116, 47>>
urljoin(base, url) ==
    IF base = <<>> THEN url
    ELSE IF url # <<>> /\ Head(url) = 47
         THEN SubSeq(base, 1, Len(base) - 1) \o url
         ELSE base \o url

DbBase == <<104, 116, 116, 112>>
DbUrl(id) == DbBase \o <<38>> \o urlencode_id(id)

(***************************************************************************)
(* class game                                                              *)
(***************************************************************************)
game(id, db_url) == [id |-> id, db_url |-> db_url, info |-> EmptyDict]

dict_update(rec, dd) ==
    [k \in DOMAIN rec \cup DOMAIN dd |-> IF k \in DOMAIN dd THEN dd[k] ELSE rec[k]]

to_dict(gm) ==
    dict_update([id |-> gm.id, db_url |-> gm.db_url], gm.info)

KeyOrder == <<"id", "db_url", "Author", "description">>
Keys == {KeyOrder[k] : k \in DOMAIN KeyOrder}

\* the keys of a dict in iteration order
dict_keys(dct) == SelectSeq(KeyOrder, LAMBDA k : k \in DOMAIN dct)

diff_changed_only(gm, json_or_instance) ==
    LET new == to_dict(gm)
        ks == {k \in DOMAIN new : k \in DOMAIN json_or_instance
                                   /\ new[k] # json_or_instance[k]}
    IN  [k \in ks |-> new[k]]
RECURSIVE diff_loop(_, _, _, _)
diff_loop(ks, new, old, acc) ==
    IF ks = <<>> THEN acc
    ELSE LET k == Head(ks)
         IN  IF ~(k \in DOMAIN old) \/ new[k] # old[k]
             THEN diff_loop(Tail(ks), new, old,
                            dict_update(acc, [x \in {k} |-> new[k]]))
             ELSE diff_loop(Tail(ks), new, old, acc)
diff(gm, json_or_instance) ==
    LET new == to_dict(gm)
    IN  diff_loop(dict_keys(new), new, json_or_instance, EmptyDict)

(***************************************************************************)
(* class AgDB                                                              *)
(***************************************************************************)
\* json.dump / json.load: an object is written as its (key, value) pairs
dump_obj(dct) == [k \in DOMAIN dict_keys(dct) |-> <<dict_keys(dct)[k], dct[dict_keys(dct)[k]]>>]
json_dump(lst) == [k \in DOMAIN lst |-> dump_obj(lst[k])]
load_obj(pairs) ==
    [k \in {pairs[n][1] : n \in DOMAIN pairs} |->
        LET n == CHOOSE n \in DOMAIN pairs :
                    /\ pairs[n][1] = k
                    /\ \A m \in DOMAIN pairs : pairs[m][1] = k => m <= n
        IN  pairs[n][2]]
json_load(text) == [k \in DOMAIN text |-> load_obj(text[k])]

\* json.load raises on a text that is cut off inside an object
json_valid(text) ==
    \A k \in DOMAIN text : \A n \in DOMAIN text[k] : Len(text[k][n]) = 2

load_game_json_raises(f) == ~json_valid(f.text)
load_game_json(f) == json_load(f.text)

\* sorted(lst, key=lambda k: k["id"]): stable, ascending by code point
RECURSIVE insert_sorted(_, _)
insert_sorted(lst, rec) ==
    IF lst = <<>> THEN <<rec>>
    ELSE IF StrLess(rec["id"], Head(lst)["id"])
         THEN <<rec>> \o lst
         ELSE <<Head(lst)>> \o insert_sorted(Tail(lst), rec)
RECURSIVE sort_loop(_, _)
sort_loop(lst, acc) ==
    IF lst = <<>> THEN acc
    ELSE sort_loop(Tail(lst), insert_sorted(acc, Head(lst)))
sorted_unsorted(lst) == lst
sorted(lst) == sort_loop(lst, <<>>)

find_matches(lst, id) == SelectSeq(lst, LAMBDA r : r["id"] = id)
list_index(lst, rec) ==
    CHOOSE n \in DOMAIN lst : lst[n] = rec /\ \A m \in 1..(n - 1) : lst[m] # rec

\* self.games_json[idx].update(diff)
merge_diff_prune(rec, dd) ==
    [k \in DOMAIN dd \cup (DOMAIN rec \cap {"id", "db_url"}) |->
        IF k \in DOMAIN dd THEN dd[k] ELSE rec[k]]
merge_diff(rec, dd) == dict_update(rec, dd)

\* diff raises RuntimeError on a game whose info is empty; it is reached
\* only when a record with the game's id exists
update_if_needed_raises(lst, gm) ==
    find_matches(lst, gm.id) # <<>> /\ gm.info = EmptyDict

update_if_needed(lst, gm) ==
    LET matches == find_matches(lst, gm.id)
    IN  IF matches = <<>> THEN Append(lst, to_dict(gm))
        ELSE IF update_if_needed_raises(lst, gm) THEN lst
        ELSE LET df == diff(gm, matches[1])
                 idx == list_index(lst, matches[1])
             IN  IF df # EmptyDict
                 THEN [lst EXCEPT ![idx] = merge_diff(lst[idx], df)]
                 ELSE lst

\* get_game(self, game): the loop variable is also named game, so the
\* condition is evaluated on the entry itself; game.lower goes through
\* game.__getattr__
ReturnNone == [kind |-> "return", some |-> FALSE, value |-> game(<<>>, <<>>)]
Return(v) == [kind |-> "return", some |-> TRUE, value |-> v]
Raise(exc) == [kind |-> "raise", some |-> FALSE, value |-> game(<<>>, <<>>), exc |-> exc]
getattr(gm, attr) ==
    IF attr \in DOMAIN gm.info THEN Return(gm.info[attr]) ELSE Raise("AttributeError")
get_game(lst, name) ==
    IF lst = <<>> THEN ReturnNone
    ELSE LET gm == lst[1]
         IN  IF getattr(gm, "lower").kind = "raise"
             THEN Raise("AttributeError")
             ELSE Raise("TypeError")

(***************************************************************************)
(* AgDB.parse: the listing document                                        *)
(*                                                                         *)
(* A listing document is [form, action, options, url]: whether the form    *)
(* SelfSubmit is there, its action, its option elements in document order  *)
(* (each with or without a value attribute) and the URL the document came  *)
(* from (<<>> for None, as after get_games_from_file).                     *)
(***************************************************************************)
S_Select == <<83, 101, 108, 101, 99, 116>>

skip_never(id) == FALSE
skip_option(id) == id = S_Select

option_url(db_base, url, id) ==
    LET db_url == db_base \o <<38>> \o urlencode_id(id)
    IN  IF ~startswith(db_url, S_http) THEN urljoin(url, db_url) ELSE db_url

\* for option in options: ...; option["value"] raises KeyError without value
RECURSIVE options_loop(_, _, _, _)
options_loop(options, db_base, url, acc) ==
    IF options = <<>> THEN [kind |-> "return", games |-> acc]
    ELSE LET option == Head(options)
         IN  IF ~option.has_value THEN [kind |-> "KeyError", games |-> acc]
             ELSE IF skip_option(option.value)
                  THEN options_loop(Tail(options), db_base, url, acc)
                  ELSE options_loop(Tail(options), db_base, url,
                          Append(acc, game(option.value,
                                           option_url(db_base, url, option.value))))

\* AgDB.parse(): form is None without the form, and form["action"] raises
AgDB_parse(doc, lst) ==
    IF ~doc.form THEN [kind |-> "TypeError", games |-> lst]
    ELSE options_loop(doc.options, doc.action, doc.url, lst)

Option(v) == [has_value |-> TRUE, value |-> v]
NoValueOption == [has_value |-> FALSE, value |-> <<>>]

(***************************************************************************)
(* game.parse: the detail page                                             *)
(*                                                                         *)
(* A detail page is [rows, nodes].  rows are the tr elements in document   *)
(* order, each the sequence of its td cells [text, a, href] (a is "none",  *)
(* "href" for a link with a target, "bare" for a link without one).  nodes *)
(* is the rest of the tree in document order, each node a tag or a string  *)
(* with its depth, so that the nodes under a tag are the ones that follow  *)
(* it with a greater depth.                                                *)
(***************************************************************************)
S_Author == <<65, 117, 116, 104, 111, 114>>
S_id == <<105, 100>>
S_db_url == <<100, 98, 95, 117, 114, 108>>
S_description == <<100, 101, 115, 99, 114, 105, 112, 116, 105, 111, 110>>
S_Description == <<68, 101, 115, 99, 114, 105, 112, 116, 105, 111, 110>>
S_Admin == <<65, 100, 109, 105, 110>>
S_Community == <<67, 111, 109, 109, 117, 110, 105, 116, 121>>
S_QuickLinks == <<81, 117, 105, 99, 107, 32, 76, 105, 110, 107, 115>>
S_h2 == <<104, 50>>
S_p == <<112>>
S_div == <<100, 105, 118>>
S_bold == <<98>>

\* the dict key that a cell text is
key_name(s) ==
    CASE s = S_Author -> "Author"
      [] s = S_id -> "id"
      [] s = S_db_url -> "db_url"
      [] s = S_description -> "description"

RECURSIVE rstrip_colon(_)
rstrip_colon(s) ==
    IF s # <<>> /\ s[Len(s)] = 58 THEN rstrip_colon(SubSeq(s, 1, Len(s) - 1)) ELSE s

\* for row in soup("tr"): row[0] or row[1] raises IndexError on a row of
\* fewer than two cells; a link without href raises KeyError
RECURSIVE rows_loop(_, _)
rows_loop(rows, info) ==
    IF rows = <<>> THEN [kind |-> "return", info |-> info]
    ELSE LET row == Head(rows)
         IN  IF Len(row) < 2 THEN [kind |-> "IndexError", info |-> info]
             ELSE IF row[2].a = "bare" THEN [kind |-> "KeyError", info |-> info]
             ELSE LET key == key_name(rstrip_colon(row[1].text))
                      value == IF row[2].a = "href" THEN row[2].href ELSE row[2].text
                  IN  rows_loop(Tail(rows), dict_update(info, [x \in {key} |-> value]))

\* the last node under the tag at n
subtree_end(nodes, n) ==
    CHOOSE m \in n..Len(nodes) :
        /\ \A k \in (n + 1)..m : nodes[k].depth > nodes[n].depth
        /\ (m < Len(nodes) => nodes[m + 1].depth <= nodes[n].depth)

children(nodes, n) ==
    SelectSeq([k \in 1..Len(nodes) |-> k],
              LAMBDA k : /\ k > n
                         /\ k <= subtree_end(nodes, n)
                         /\ nodes[k].depth = nodes[n].depth + 1)

\* str(tag): the markup of the tag with everything under it
RECURSIVE str_node(_, _)
RECURSIVE str_each(_, _)
str_node(nodes, n) ==
    IF nodes[n].kind = "text" THEN nodes[n].text
    ELSE <<60>> \o nodes[n].name \o <<62>>
         \o str_each(nodes, children(nodes, n))
         \o <<60, 47>> \o nodes[n].name \o <<62>>
str_each(nodes, ks) ==
    IF ks = <<>> THEN <<>>
    ELSE str_node(nodes, Head(ks)) \o str_each(nodes, Tail(ks))

\* tag.text: the strings under the tag, joined
RECURSIVE join_text(_, _, _)
join_text(nodes, k, m) ==
    IF k > m THEN <<>>
    ELSE (IF nodes[k].kind = "text" THEN nodes[k].text ELSE <<>>)
         \o join_text(nodes, k + 1, m)
tag_text(nodes, n) == join_text(nodes, n, subtree_end(nodes, n))

\* tag.string: <<s>> when the tag has one child that is the string s or a
\* tag whose string is s, <<>> for None
RECURSIVE tag_string(_, _)
tag_string(nodes, n) ==
    LET cs == children(nodes, n)
    IN  IF Len(cs) # 1 THEN <<>>
        ELSE IF nodes[cs[1]].kind = "text" THEN <<nodes[cs[1]].text>>
        ELSE tag_string(nodes, cs[1])

\* soup.find("h2", text="Description"): index of the first match, 0 for None
find_description(nodes) ==
    LET hits == {n \in DOMAIN nodes : /\ nodes[n].kind = "tag"
                                      /\ nodes[n].name = S_h2
                                      /\ tag_string(nodes, n) = <<S_Description>>}
    IN  IF hits = {} THEN 0 ELSE CHOOSE n \in hits : \A m \in hits : n <= m

\* heading.findNext(): the next tag in document order, 0 for None
findNext_last(nodes, h) ==
    LET later == {n \in DOMAIN nodes : n > h /\ nodes[n].kind = "tag"}
    IN  IF later = {} THEN 0 ELSE CHOOSE n \in later : \A m \in later : n >= m
findNext(nodes, h) ==
    LET later == {n \in DOMAIN nodes : n > h /\ nodes[n].kind = "tag"}
    IN  IF later = {} THEN 0 ELSE CHOOSE n \in later : \A m \in later : n <= m

StopTexts == {S_Admin, S_Community, S_QuickLinks}
is_stop(nodes, n) ==
    nodes[n].name = S_h2 /\ tag_text(nodes, n) \in StopTexts

\* one turn of the while loop; None.findNext() and None.name raise
scan_step(nodes, h, acc) ==
    IF h = 0 THEN [kind |-> "AttributeError", heading |-> h, description |-> acc]
    ELSE LET nh == findNext(nodes, h)
         IN  IF nh = 0
             THEN [kind |-> "AttributeError", heading |-> nh, description |-> acc]
             ELSE IF is_stop(nodes, nh)
                  THEN [kind |-> "break", heading |-> nh, description |-> acc]
                  ELSE [kind |-> "continue", heading |-> nh,
                        description |-> acc \o str_node(nodes, nh)]

RECURSIVE scan_loop(_, _, _)
scan_loop(nodes, h, acc) ==
    LET st == scan_step(nodes, h, acc)
    IN  IF st.kind = "continue" THEN scan_loop(nodes, st.heading, st.description)
        ELSE st

\* game.parse() once the page has been received
game_parse(gm, pg) ==
    LET rl == rows_loop(pg.rows, gm.info)
    IN  IF rl.kind # "return"
        THEN [kind |-> rl.kind, game |-> [gm EXCEPT !.info = rl.info]]
        ELSE LET sc == scan_loop(pg.nodes, find_description(pg.nodes), <<>>)
             IN  IF sc.kind # "break"
                 THEN [kind |-> sc.kind, game |-> [gm EXCEPT !.info = rl.info]]
                 ELSE [kind |-> "return",
                       game |-> [gm EXCEPT !.info =
                                    dict_update(rl.info, [description |-> sc.description])]]

Cell(text) == [text |-> text, a |-> "none", href |-> <<>>]
LinkCell(text, href) == [text |-> text, a |-> "href", href |-> href]
BareLinkCell(text) == [text |-> text, a |-> "bare", href |-> <<>>]
Tag(name, depth) == [kind |-> "tag", name |-> name, text |-> <<>>, depth |-> depth]
Text(text, depth) == [kind |-> "text", name |-> <<>>, text |-> text, depth |-> depth]

(***************************************************************************)
(* Inputs: what the pages and the snapshot file can hold                   *)
(***************************************************************************)
ErrorLimit == 5

\* pieces of a detail page: the headings, paragraphs, a string between
\* elements, a paragraph with an inline element, a div around the stop
B_desc == <<Tag(S_h2, 0), Text(S_Description, 1)>>
B_community == <<Tag(S_h2, 0), Text(S_Community, 1)>>
B_admin == <<Tag(S_h2, 0), Text(S_Admin, 1)>>
B_other == <<Tag(S_h2, 0), Text(S_x, 1)>>
B_p == <<Tag(S_p, 0), Text(S_x, 1)>>
B_p_community == <<Tag(S_p, 0), Text(S_Community, 1)>>
B_text == <<Text(S_y, 0)>>
B_nested == <<Tag(S_p, 0), Text(S_x, 1), Tag(S_bold, 1), Text(S_y, 2)>>
B_wrapped == <<Tag(S_div, 0), Tag(S_p, 1), Text(S_z, 2), Tag(S_h2, 1), Text(S_Community, 2)>>
Blocks == {B_desc, B_community, B_admin, B_other, B_p, B_p_community, B_text,
           B_nested, B_wrapped}

RECURSIVE Body(_)
Body(blocks) == IF blocks = <<>> THEN <<>> ELSE Head(blocks) \o Body(Tail(blocks))

\* table rows: two cells, a link, the key "id", one cell, none, three, a
\* link without href
R_author == <<Cell(S_Author \o <<58>>), Cell(S_y)>>
R_link == <<Cell(S_Author), LinkCell(S_x, S_z)>>
R_id == <<Cell(S_id \o <<58>>), Cell(S_b)>>
R_one == <<Cell(S_Author \o <<58>>)>>
R_none == <<>>
R_three == <<Cell(S_Author \o <<58>>), Cell(S_x), Cell(S_y)>>
R_bare == <<Cell(S_Author \o <<58>>), BareLinkCell(S_x)>>
Rows == {R_author, R_link, R_id, R_one, R_none, R_three, R_bare}

Page1 == [rows |-> <<>>, nodes |-> Body(<<B_desc, B_p, B_community>>)]
Page2 == [rows |-> <<R_author>>, nodes |-> Body(<<B_desc, B_p, B_p, B_admin>>)]
Page3 == [rows |-> <<R_id>>, nodes |-> Body(<<B_desc, B_p, B_community>>)]
PageNoHeading == [rows |-> <<R_author>>, nodes |-> Body(<<B_p, B_community>>)]
PageNoStop == [rows |-> <<>>, nodes |-> Body(<<B_desc, B_p>>)]
DriverPages == {Page1, Page2, PageNoHeading, PageNoStop}

Info1 == game_parse(game(<<>>, <<>>), Page1).game.info
Info2 == game_parse(game(<<>>, <<>>), Page2).game.info
Info3 == game_parse(game(<<>>, <<>>), Page3).game.info
DriverInfos == {Info1, Info2}
StoreInfos == {Info1, Info2, Info3}

parsed(id, info) == [id |-> id, db_url |-> DbUrl(id), info |-> info]

\* what parse leaves in info when it raises after the row loop
table_part(info) == [k \in DOMAIN info \ {"description"} |-> info[k]]

Collection1 == <<to_dict(parsed(S_a, Info1))>>
Collection2 == <<to_dict(parsed(S_A, Info2)), to_dict(parsed(S_b, Info1))>>
InitCollections == {<<>>, Collection1, Collection2}

NoFile == [exists |-> FALSE, text |-> <<>>]
FileOf(lst) == [exists |-> TRUE, text |-> json_dump(lst)]
InitFiles == {NoFile} \cup {FileOf(c) : c \in InitCollections}

\* a snapshot that is present and is not JSON: a dump cut off after a key
CorruptFile == [exists |-> TRUE, text |-> << << <<"id">> >> >>]

\* the listing page of the driver: the placeholder and n options
ListingIds == <<S_b, S_A, S_a>>
ListingDoc(n) ==
    [form |-> TRUE, action |-> DbBase, url |-> base_url,
     options |-> <<Option(S_Select)>> \o
                 [j \in 1..n |-> Option(ListingIds[((j - 1) % 3) + 1])]]
Listing(n) == AgDB_parse(ListingDoc(n), <<>>).games

(***************************************************************************)
(* AgDB.__init__ followed by the listing                                   *)
(***************************************************************************)
NoListing == [form |-> FALSE, action |-> <<>>, options |-> <<>>, url |-> <<>>]
NoPage == [rows |-> <<>>, nodes |-> <<>>]

\* no document has been received yet
NoInput ==
    /\ html = NoListing
    /\ page = NoPage
    /\ heading = 0
    /\ description = <<>>
    /\ ppc = "idle"

\* nothing has run yet
Zeroed ==
    /\ errors = 0
    /\ saves = 0
    /\ fetched = {}
    /\ nfailed = 0
    /\ intr = 0
    /\ json_game = <<>>
    /\ d = EmptyDict
    /\ query = <<>>
    /\ result = ReturnNone
    /\ last = "init"
    /\ ops = 0

Fresh == NoInput /\ Zeroed

AgDB_init(f, listing) ==
    /\ file = f
    /\ games_json = IF f.exists THEN load_game_json(f) ELSE <<>>
    /\ games = listing
    /\ Fresh

\* the program has been started with the name of the snapshot file
Init ==
    \E f \in InitFiles \cup {CorruptFile} :
        /\ file = f
        /\ games_json = <<>>
        /\ games = <<>>
        /\ Fresh
        /\ i = 1
        /\ g = game(<<>>, <<>>)
        /\ pc = "start"

(***************************************************************************)
(* Startup of __main__                                                     *)
(***************************************************************************)
\* a constructor that takes an unreadable snapshot for an empty one
Construct_lenient ==
    /\ pc = "start"
    /\ games_json' = IF file.exists /\ ~load_game_json_raises(file)
                     THEN load_game_json(file) ELSE <<>>
    /\ pc' = "listing"
    /\ UNCHANGED <<games, i, g, errors, file, saves, fetched, nfailed, intr,
                   json_game, d, query, result, last, ops>>
    /\ UNCHANGED pvars

\* ag = AgDB(fn): the snapshot is loaded when the file exists; an exception
\* of json.load is not caught and ends the program
Construct ==
    /\ pc = "start"
    /\ IF file.exists /\ load_game_json_raises(file)
       THEN pc' = "crashed" /\ UNCHANGED games_json
       ELSE /\ games_json' = IF file.exists THEN load_game_json(file) ELSE <<>>
            /\ pc' = "listing"
    /\ UNCHANGED <<games, i, g, errors, file, saves, fetched, nfailed, intr,
                   json_game, d, query, result, last, ops>>
    /\ UNCHANGED pvars

\* ag.get_games_from_url() returns the listing
GetGames ==
    /\ pc = "listing"
    /\ \E n \in 0..MaxItems :
          /\ games' = Listing(n)
          /\ g' = IF n = 0 THEN g ELSE Listing(n)[1]
          /\ pc' = IF n = 0 THEN "save" ELSE "fetch"
    /\ UNCHANGED <<i, errors, games_json, file, saves, fetched, nfailed, intr,
                   json_game, d, query, result, last, ops>>
    /\ UNCHANGED pvars

\* the listing request fails or the form is missing: nothing catches it
GetGamesFails ==
    /\ pc = "listing"
    /\ pc' = "crashed"
    /\ UNCHANGED <<games, i, g, errors, games_json, file, saves, fetched,
                   nfailed, intr, json_game, d, query, result, last, ops>>
    /\ UNCHANGED pvars

(***************************************************************************)
(* The for loop of __main__                                                *)
(***************************************************************************)
\* a loop that takes the same item again
NextItem_retry == pc' = "fetch" /\ UNCHANGED <<i, g>>

\* the for statement takes the next item of ag.games, or the loop is over
NextItem ==
    IF i < Len(games)
    THEN /\ i' = i + 1
         /\ g' = games[i + 1]
         /\ pc' = "fetch"
    ELSE /\ pc' = "save"
         /\ UNCHANGED <<i, g>>

Break == pc' = "save" /\ UNCHANGED i

\* g.parse() returns
ParseOk ==
    /\ pc = "fetch"
    /\ \E pg \in DriverPages :
          /\ game_parse(g, pg).kind = "return"
          /\ g' = game_parse(g, pg).game
    /\ fetched' = fetched \cup {i}
    /\ pc' = "update"
    /\ UNCHANGED <<games, i, errors, games_json, file, saves, nfailed, intr,
                   json_game, d, query, result, last, ops>>
    /\ UNCHANGED pvars

\* the request fails, or raise_for_status raises
ParseTransportError ==
    /\ pc = "fetch"
    /\ fetched' = fetched \cup {i}
    /\ nfailed' = nfailed + 1
    /\ pc' = "handler"
    /\ UNCHANGED <<games, i, g, errors, games_json, file, saves, intr,
                   json_game, d, query, result, last, ops>>
    /\ UNCHANGED pvars

\* the page lacks the expected structure: parse raises
ParseStructureError ==
    /\ pc = "fetch"
    /\ \E pg \in DriverPages :
          /\ game_parse(g, pg).kind # "return"
          /\ g' = game_parse(g, pg).game
    /\ fetched' = fetched \cup {i}
    /\ nfailed' = nfailed + 1
    /\ pc' = "handler"
    /\ UNCHANGED <<games, i, errors, games_json, file, saves, intr,
                   json_game, d, query, result, last, ops>>
    /\ UNCHANGED pvars

\* KeyboardInterrupt inside g.parse(), before or after the request
InterruptInParse ==
    /\ pc = "fetch"
    /\ \/ UNCHANGED <<fetched, g>>
       \/ /\ fetched' = fetched \cup {i}
          /\ \E info \in DriverInfos : g' = [g EXCEPT !.info = table_part(info)]
    /\ intr' = i
    /\ Break
    /\ UNCHANGED <<games, errors, games_json, file, saves, nfailed,
                   json_game, d, query, result, last, ops>>
    /\ UNCHANGED pvars

UpdateLocals(gm) ==
    /\ json_game' = find_matches(games_json, gm.id)
    /\ d' = IF find_matches(games_json, gm.id) = <<>>
               \/ update_if_needed_raises(games_json, gm)
            THEN EmptyDict
            ELSE diff(gm, find_matches(games_json, gm.id)[1])
    /\ last' = "update_if_needed"

\* ag.update_if_needed(g); g.parse() has returned, so g.info holds
\* "description" and diff does not raise
Update ==
    /\ pc = "update"
    /\ games_json' = update_if_needed(games_json, g)
    /\ UpdateLocals(g)
    /\ pc' = "sleep"
    /\ UNCHANGED <<games, i, g, errors, file, saves, fetched, nfailed, intr,
                   query, result, ops>>
    /\ UNCHANGED pvars

\* KeyboardInterrupt inside update_if_needed, before or after the mutation
InterruptInUpdate ==
    /\ pc = "update"
    /\ \/ UNCHANGED <<games_json, json_game, d, last>>
       \/ /\ games_json' = update_if_needed(games_json, g)
          /\ UpdateLocals(g)
    /\ intr' = i
    /\ Break
    /\ UNCHANGED <<games, g, errors, file, saves, fetched, nfailed, query,
                   result, ops>>
    /\ UNCHANGED pvars

\* time.sleep(random.uniform(1, 3)) returns
Sleep ==
    /\ pc = "sleep"
    /\ NextItem
    /\ UNCHANGED <<games, errors, games_json, file, saves, fetched, nfailed,
                   intr, json_game, d, query, result, last, ops>>
    /\ UNCHANGED pvars

InterruptInSleep ==
    /\ pc = "sleep"
    /\ intr' = i
    /\ Break
    /\ UNCHANGED <<games, g, errors, games_json, file, saves, fetched, nfailed,
                   json_game, d, query, result, last, ops>>
    /\ UNCHANGED pvars

count_error_twice(e) == e + 2
count_error(e) == e + 1

\* except: the traceback is printed and the counter incremented
Handler ==
    /\ pc = "handler"
    /\ errors' = count_error(errors)
    /\ pc' = "counted"
    /\ UNCHANGED <<games, i, g, games_json, file, saves, fetched, nfailed,
                   intr, json_game, d, query, result, last, ops>>
    /\ UNCHANGED pvars

limit_reached_late(e) == e > ErrorLimit + 1
limit_reached(e) == e > ErrorLimit

\* the counter is printed and compared with the limit
Check ==
    /\ pc = "counted"
    /\ IF limit_reached(errors) THEN Break /\ UNCHANGED g ELSE NextItem
    /\ UNCHANGED <<games, errors, games_json, file, saves, fetched, nfailed,
                   intr, json_game, d, query, result, last, ops>>
    /\ UNCHANGED pvars

\* KeyboardInterrupt inside the except clause: nothing catches it
InterruptInHandler ==
    /\ pc \in {"handler", "counted"}
    /\ intr' = i
    /\ pc' = "aborted"
    /\ UNCHANGED <<games, i, g, errors, games_json, file, saves, fetched,
                   nfailed, json_game, d, query, result, last, ops>>
    /\ UNCHANGED pvars

save_game_json(lst) == sorted(lst)

\* ag.save_game_json(fn)
Save ==
    /\ pc = "save"
    /\ games_json' = save_game_json(games_json)
    /\ file' = FileOf(save_game_json(games_json))
    /\ saves' = saves + 1
    /\ last' = "save_game_json"
    /\ pc' = "done"
    /\ UNCHANGED <<games, i, g, errors, fetched, nfailed, intr, json_game, d,
                   query, result, ops>>
    /\ UNCHANGED pvars

Next ==
    \/ Construct
    \/ GetGames
    \/ GetGamesFails
    \/ ParseOk
    \/ ParseTransportError
    \/ ParseStructureError
    \/ InterruptInParse
    \/ Update
    \/ InterruptInUpdate
    \/ Sleep
    \/ InterruptInSleep
    \/ Handler
    \/ Check
    \/ InterruptInHandler
    \/ Save

Spec == Init /\ [][Next]_vars

(***************************************************************************)
(* The AgDB object used as a library: its methods called in any order      *)
(***************************************************************************)
StoreInit ==
    \E f \in InitFiles, n \in {0, 2} :
        /\ AgDB_init(f, Listing(n))
        /\ i = 1
        /\ g = game(<<>>, <<>>)
        /\ pc = "api"

Called(name) ==
    /\ pc = "api"
    /\ ops < MaxOps
    /\ ops' = ops + 1
    /\ last' = name
    /\ UNCHANGED <<pc, games, i, errors, fetched, nfailed, intr>>
    /\ UNCHANGED pvars

\* update_if_needed(game), for a parsed or an unparsed game
ApiUpdate ==
    \E id \in Ids, info \in StoreInfos \cup {EmptyDict} :
        /\ Called("update_if_needed")
        /\ g' = parsed(id, info)
        /\ games_json' = update_if_needed(games_json, parsed(id, info))
        /\ UpdateLocals(parsed(id, info))
        /\ result' = IF update_if_needed_raises(games_json, parsed(id, info))
                     THEN Raise("RuntimeError") ELSE ReturnNone
        /\ UNCHANGED <<file, saves, query>>

ApiSave ==
    /\ Called("save_game_json")
    /\ games_json' = save_game_json(games_json)
    /\ file' = FileOf(save_game_json(games_json))
    /\ saves' = saves + 1
    /\ result' = ReturnNone
    /\ UNCHANGED <<g, json_game, d, query>>

ApiLoad ==
    /\ Called("load_game_json")
    /\ IF file.exists
       THEN games_json' = load_game_json(file) /\ result' = ReturnNone
       ELSE games_json' = games_json /\ result' = Raise("FileNotFoundError")
    /\ UNCHANGED <<g, file, saves, json_game, d, query>>

ApiGetGame ==
    \E name \in Ids :
        /\ Called("get_game")
        /\ query' = name
        /\ result' = get_game(games, name)
        /\ UNCHANGED <<g, games_json, file, saves, json_game, d>>

StoreNext ==
    \/ ApiUpdate
    \/ ApiSave
    \/ ApiLoad
    \/ ApiGetGame

StoreSpec == StoreInit /\ [][StoreNext]_vars

(***************************************************************************)
(* The listing: get_games_from_url or get_games_from_file on a new AgDB    *)
(***************************************************************************)
S_a_b == <<97, 32, 98>>
S_rel == <<47, 100>>
OptionElements == {Option(S_Select), Option(S_A), Option(S_a), Option(S_b),
                   Option(S_a_b), NoValueOption}
OptionLists == UNION {[1..n -> OptionElements] : n \in 0..MaxOptions}
ListingDocs ==
    [form : BOOLEAN, action : {DbBase, S_rel}, url : {<<>>, base_url},
     options : OptionLists]

\* AgDB() without a snapshot; the body of the response or of the file is doc
ListInit ==
    \E doc \in ListingDocs :
        /\ file = NoFile
        /\ games_json = <<>>
        /\ games = <<>>
        /\ Zeroed
        /\ html = doc
        /\ page = NoPage
        /\ heading = 0
        /\ description = <<>>
        /\ ppc = "listing"
        /\ i = 1
        /\ g = game(<<>>, <<>>)
        /\ pc = "api"

ListUnchanged ==
    UNCHANGED <<pc, i, g, errors, games_json, file, saves, fetched, nfailed,
                intr, json_game, d, query, ops, html, page, heading,
                description>>

\* self._html = ...; self.parse()
ListParse ==
    /\ ppc = "listing"
    /\ games' = AgDB_parse(html, games).games
    /\ result' = IF AgDB_parse(html, games).kind = "return"
                 THEN ReturnNone ELSE Raise(AgDB_parse(html, games).kind)
    /\ last' = "parse"
    /\ ppc' = "listed"
    /\ ListUnchanged

\* the request or raise_for_status raises, or the file cannot be opened
ListFetchFails ==
    /\ ppc = "listing"
    /\ result' = Raise("OSError")
    /\ last' = "get_games"
    /\ ppc' = "failed"
    /\ UNCHANGED games
    /\ ListUnchanged

ListNext ==
    \/ ListParse
    \/ ListFetchFails

ListSpec == ListInit /\ [][ListNext]_vars

(***************************************************************************)
(* One pass of the for loop with g.parse() taken statement by statement    *)
(***************************************************************************)
BlockLists == UNION {[1..n -> Blocks] : n \in 0..MaxBlocks}
RowLists == UNION {[1..n -> Rows] : n \in 0..MaxRows}
DetailPages ==
    {[rows |-> <<>>, nodes |-> Body(bs)] : bs \in BlockLists}
    \cup {[rows |-> rs, nodes |-> Page1.nodes] : rs \in RowLists}
    \cup {[rows |-> rs, nodes |-> PageNoHeading.nodes] : rs \in RowLists}

\* the loop is at its first item; the site will answer with pg
PageInit ==
    \E f \in {NoFile, FileOf(Collection1)}, pg \in DetailPages :
        /\ file = f
        /\ games_json = IF f.exists THEN load_game_json(f) ELSE <<>>
        /\ games = Listing(2)
        /\ Zeroed
        /\ i = 1
        /\ g = Listing(2)[1]
        /\ pc = "fetch"
        /\ page = pg
        /\ ppc = "request"
        /\ html = ListingDoc(2)
        /\ heading = 0
        /\ description = <<>>

PageUnchanged ==
    UNCHANGED <<games, i, errors, games_json, file, saves, intr, json_game, d,
                query, last, ops, html, page>>

\* an exception leaves parse and is caught by the except clause
PageRaise(exc) ==
    /\ result' = Raise(exc)
    /\ nfailed' = nfailed + 1
    /\ pc' = "handler"

\* the request fails or raise_for_status raises
PageRequestFails ==
    /\ pc = "fetch"
    /\ ppc = "request"
    /\ fetched' = fetched \cup {i}
    /\ PageRaise("RequestException")
    /\ ppc' = "failed"
    /\ UNCHANGED <<g, heading, description>>
    /\ PageUnchanged

\* the response is there: soup = ...; for row in soup("tr"): ...
PageRows ==
    /\ pc = "fetch"
    /\ ppc = "request"
    /\ fetched' = fetched \cup {i}
    /\ g' = [g EXCEPT !.info = rows_loop(page.rows, g.info).info]
    /\ IF rows_loop(page.rows, g.info).kind = "return"
       THEN ppc' = "find" /\ UNCHANGED <<pc, nfailed, result>>
       ELSE ppc' = "raised" /\ PageRaise(rows_loop(page.rows, g.info).kind)
    /\ UNCHANGED <<heading, description>>
    /\ PageUnchanged

\* description = ""; heading = soup.find("h2", text="Description")
PageFind ==
    /\ pc = "fetch"
    /\ ppc = "find"
    /\ description' = <<>>
    /\ heading' = find_description(page.nodes)
    /\ ppc' = "scan"
    /\ UNCHANGED <<pc, g, fetched, nfailed, result>>
    /\ PageUnchanged

\* one turn of while True
PageScan ==
    /\ pc = "fetch"
    /\ ppc = "scan"
    /\ LET st == scan_step(page.nodes, heading, description)
       IN  /\ heading' = st.heading
           /\ description' = st.description
           /\ CASE st.kind = "continue" -> UNCHANGED <<ppc, pc, nfailed, result>>
                [] st.kind = "break" ->
                      ppc' = "store" /\ UNCHANGED <<pc, nfailed, result>>
                [] OTHER -> ppc' = "raised" /\ PageRaise(st.kind)
    /\ UNCHANGED <<g, fetched>>
    /\ PageUnchanged

\* self.info["description"] = description, and parse returns
PageStore ==
    /\ pc = "fetch"
    /\ ppc = "store"
    /\ g' = [g EXCEPT !.info = dict_update(g.info, [description |-> description])]
    /\ ppc' = "returned"
    /\ pc' = "update"
    /\ UNCHANGED <<fetched, nfailed, result, heading, description>>
    /\ PageUnchanged

PageNext ==
    \/ PageRequestFails
    \/ PageRows
    \/ PageFind
    \/ PageScan
    \/ PageStore
    \/ Update
    \/ Sleep
    \/ Handler
    \/ Check

PageSpec == PageInit /\ [][PageNext]_vars
FairPageSpec == PageSpec /\ WF_vars(PageNext)

(***************************************************************************)
(* The crawl driver                                                        *)
(***************************************************************************)
\* C1: in every run that entered the item loop, save_game_json is called
\* exactly once, and only after the loop has ended: never before, never
\* twice, and a run that has ended has made the call.
C1_SaveExactlyOnce ==
    /\ saves <= 1
    /\ (saves = 1 => pc = "done")
    /\ (pc \in {"done", "aborted"} => saves = 1)

\* C2: a failure of the fetch or parse of an item is caught inside the loop:
\* the collection and the loop index are as before the item, the handler
\* adds exactly one to the error counter, and while the counter does not
\* exceed the limit the driver moves to the next item of the listing (or to
\* save after the last one).
C2_FailureStaysInLoop ==
    [][/\ (pc = "fetch" /\ nfailed' # nfailed) =>
              /\ pc' = "handler"
              /\ games_json' = games_json
              /\ errors' = errors
              /\ i' = i
       /\ (pc = "handler" /\ pc' # "aborted") =>
              /\ pc' = "counted"
              /\ errors' = errors + 1
              /\ games_json' = games_json
              /\ i' = i
       /\ (pc = "counted" /\ errors <= ErrorLimit /\ pc' # "aborted") =>
              /\ games_json' = games_json
              /\ errors' = errors
              /\ IF i < Len(games)
                 THEN pc' = "fetch" /\ i' = i + 1 /\ g' = games[i + 1]
                 ELSE pc' = "save"]_vars

\* item 1 failed, was counted, and the driver is at item 2 with the
\* collection as loaded
W_C2 ==
    /\ pc = "fetch"
    /\ i = 2
    /\ errors = 1
    /\ nfailed = 1
    /\ games_json # <<>>
    /\ games_json = load_game_json(file)

\* C3: the error counter is the number of failed items so far (no success
\* resets it), it never exceeds the limit by more than one, so at most 6
\* items fail; once it exceeds the limit no further item is fetched and the
\* loop is left for save, which runs (a user interrupt inside the except
\* clause is the case of C1, not of the breaker).  With 10 items of which items 1-6
\* fail, items 7-10 are not fetched and the collection written is the one
\* that was loaded.
C3_CircuitBreaker ==
    /\ [](/\ errors <= ErrorLimit + 1
          /\ nfailed <= ErrorLimit + 1
          /\ (pc \notin {"handler", "aborted"} => errors = nfailed)
          /\ (errors > ErrorLimit => pc \in {"counted", "save", "done", "aborted"}))
    /\ [][/\ errors' >= errors
          /\ (errors > ErrorLimit => fetched' = fetched)
          /\ (pc = "counted" /\ errors > ErrorLimit /\ pc' # "aborted") => pc' = "save"
          /\ (pc = "save") => (pc' = "done" /\ saves' = saves + 1)
          /\ (pc = "save" /\ Len(games) = 10 /\ nfailed = 6 /\ fetched = 1..6) =>
                 /\ fetched \cap 7..10 = {}
                 /\ load_game_json(file') =
                       (IF file.exists THEN load_game_json(file) ELSE <<>>)]_vars

\* the run of 10 items whose items 1-6 failed has ended with a save
W_C3 ==
    /\ Len(games) = 10
    /\ pc = "done"
    /\ errors = 6
    /\ nfailed = 6
    /\ fetched = 1..6
    /\ intr = 0
    /\ saves = 1
    /\ games_json # <<>>

\* C4: after an interrupt that arrived while item k was being processed, no
\* item from k on has been fetched, the run is not lost, and once it has
\* ended the collection in memory is the one save has written.
C4_InterruptPersists ==
    intr # 0 =>
        /\ \A j \in fetched : j < intr
        /\ pc # "aborted"
        /\ (pc = "done" => saves = 1 /\ load_game_json(file) = games_json)

(***************************************************************************)
(* The collection store                                                    *)
(***************************************************************************)
IsUpdateStep ==
    \/ pc = "api" /\ ops' # ops /\ last' = "update_if_needed"
    \/ pc = "update" /\ pc' = "sleep"

IsSaveStep == saves' # saves

Count(lst, rec) == Cardinality({n \in DOMAIN lst : lst[n] = rec})
SameRecords(l1, l2) ==
    /\ Len(l1) = Len(l2)
    /\ \A n \in DOMAIN l1 : Count(l1, l1[n]) = Count(l2, l1[n])

IsSortedById(lst) ==
    \A m, n \in DOMAIN lst : m < n => ~StrLess(lst[n]["id"], lst[m]["id"])

\* C5: no two records of the collection have the same id.
C5_IdsUnique ==
    \A m, n \in DOMAIN games_json :
        m # n => games_json[m]["id"] # games_json[n]["id"]

\* C6: update_if_needed and save_game_json never delete: an update keeps
\* every record in its place with at least the keys it had, and a key the
\* fresh item does not have keeps its value; a save only reorders the
\* records.
C6_UnionMerge ==
    [][/\ IsUpdateStep =>
              /\ Len(games_json') >= Len(games_json)
              /\ \A n \in DOMAIN games_json :
                    /\ DOMAIN games_json[n] \subseteq DOMAIN games_json'[n]
                    /\ \A k \in DOMAIN games_json[n] \ DOMAIN to_dict(g') :
                          games_json'[n][k] = games_json[n][k]
       /\ IsSaveStep => SameRecords(games_json', games_json)]_vars

\* the stored record of the item just merged was changed by a non-empty
\* diff and still has its Author, which the fresh item does not have
W_C6 ==
    /\ last = "update_if_needed"
    /\ json_game # <<>>
    /\ d # EmptyDict
    /\ "Author" \in DOMAIN json_game[1]
    /\ "Author" \notin DOMAIN to_dict(g)
    /\ \E n \in DOMAIN games_json :
          /\ games_json[n]["id"] = g.id
          /\ "Author" \in DOMAIN games_json[n]
          /\ games_json[n]["Author"] = json_game[1]["Author"]

\* C7: for a parsed item with a prior record, diff is exactly the keys of
\* the new record (id, db_url and the attributes) that the prior record
\* lacks or holds with another value, each with the new value, and the
\* stored record becomes the prior one overwritten by the new one; with no
\* prior record the new record is appended whole.  Stored {description: x}
\* and fresh {Author: y, description: z} give the diff
\* {Author: y, description: z}.
C7_DiffExact ==
    [][(IsUpdateStep /\ g'.info # EmptyDict) =>
          LET new == to_dict(g')
          IN  IF json_game' = <<>>
              THEN games_json' = Append(games_json, new)
              ELSE LET old == json_game'[1]
                       n == list_index(games_json, old)
                   IN  /\ DOMAIN d' = {k \in DOMAIN new :
                                          k \notin DOMAIN old \/ new[k] # old[k]}
                       /\ \A k \in DOMAIN d' : d'[k] = new[k]
                       /\ DOMAIN games_json'[n] = DOMAIN old \cup DOMAIN new
                       /\ \A k \in DOMAIN games_json'[n] :
                             games_json'[n][k] =
                                IF k \in DOMAIN new THEN new[k] ELSE old[k]
                       /\ \A m \in DOMAIN games_json \ {n} :
                             games_json'[m] = games_json[m]
                       /\ Len(games_json') = Len(games_json)
                       /\ (old = to_dict(parsed(S_a, Info1)) /\ g' = parsed(S_a, Info2)) =>
                             /\ d' = [Author |-> S_y, description |-> Info2.description]
                             /\ games_json'[n] = to_dict(parsed(S_a, Info2))]_vars

\* the example: stored {description: x}, fresh {Author: y, description: z}
W_C7 ==
    /\ last = "update_if_needed"
    /\ g = parsed(S_a, Info2)
    /\ json_game = <<to_dict(parsed(S_a, Info1))>>
    /\ d = [Author |-> S_y, description |-> Info2.description]
    /\ \E n \in DOMAIN games_json : games_json[n] = to_dict(parsed(S_a, Info2))

\* C8: right after update_if_needed(g) for a parsed g, the collection holds
\* a record with g's id, the diff of g against it is empty, and a second
\* update_if_needed(g) would leave the collection as it is.
C8_UpsertIdempotent ==
    (last = "update_if_needed" /\ g.info # EmptyDict) =>
        /\ find_matches(games_json, g.id) # <<>>
        /\ diff(g, find_matches(games_json, g.id)[1]) = EmptyDict
        /\ update_if_needed(games_json, g) = games_json

\* C9: what save_game_json writes, read back by load_game_json, is sorted by
\* id ascending and holds exactly the records that were in memory before
\* the save; the collection in memory after the save is that same list.
C9_SaveLoadRoundTrip ==
    [][(IsSaveStep /\ games_json # <<>>) =>
          /\ file'.exists
          /\ IsSortedById(load_game_json(file'))
          /\ SameRecords(load_game_json(file'), games_json)
          /\ games_json' = load_game_json(file')]_vars

\* a collection of several records that was appended to, saved and loaded
W_C9 ==
    /\ last = "load_game_json"
    /\ saves = 1
    /\ result = ReturnNone
    /\ Len(games_json) >= 2
    /\ games_json = load_game_json(file)
    /\ IsSortedById(games_json)
    /\ games_json \notin InitCollections

\* C10: get_game returns an entry of the listing whose id equals the given
\* identifier up to letter case when there is one, None when there is none,
\* and never raises.
C10_FindIgnoresCase ==
    last = "get_game" =>
        LET hits == {n \in DOMAIN games : lower(games[n].id) = lower(query)}
        IN  /\ result.kind = "return"
            /\ IF hits = {} THEN result = ReturnNone
               ELSE \E n \in hits : result = Return(games[n])

(***************************************************************************)
(* Startup                                                                 *)
(***************************************************************************)
IsCorrupt(f) == f.exists /\ ~json_valid(f.text)

\* C13: while the snapshot file is present and is not JSON, the run is at
\* its start or has ended with the uncaught exception: no listing and no
\* item page has been requested, the collection was never set up, save has
\* not been called, and the file is left as it is.
C13_CorruptSnapshotFatal ==
    /\ [](IsCorrupt(file) =>
              /\ pc \in {"start", "crashed"}
              /\ games = <<>>
              /\ fetched = {}
              /\ games_json = <<>>
              /\ saves = 0)
    /\ [][IsCorrupt(file) => file' = file]_vars

\* the run has ended on the unreadable snapshot
W_C13 ==
    /\ pc = "crashed"
    /\ IsCorrupt(file)
    /\ file = CorruptFile

(***************************************************************************)
(* The listing                                                             *)
(***************************************************************************)
ValidListing(doc) == doc.form /\ \A k \in DOMAIN doc.options : doc.options[k].has_value
Selectable(doc) == SelectSeq(doc.options, LAMBDA o : o.value # S_Select)
NoDuplicates(seq) == \A k, m \in DOMAIN seq : k # m => seq[k] # seq[m]

\* C12: after the listing of a document whose form holds N options other
\* than the placeholder "Select", the item list holds exactly N new items,
\* one per option and in document order, each with the value of its option
\* as id and an empty info; when the values have no duplicates, neither the
\* ids nor the detail URLs have.
C12_ListingExact ==
    (ppc = "listed" /\ ValidListing(html)) =>
        LET real == Selectable(html)
        IN  /\ result = ReturnNone
            /\ Len(games) = Len(real)
            /\ \A k \in DOMAIN games :
                   /\ games[k].id = real[k].value
                   /\ games[k].id # S_Select
                   /\ games[k].info = EmptyDict
            /\ NoDuplicates([k \in DOMAIN real |-> real[k].value]) =>
                   /\ NoDuplicates([k \in DOMAIN games |-> games[k].id])
                   /\ NoDuplicates([k \in DOMAIN games |-> games[k].db_url])

\* a listing of the placeholder and two options has given two items
W_C12 ==
    /\ ppc = "listed"
    /\ html.form
    /\ html.options = <<Option(S_Select), Option(S_b), Option(S_a_b)>>
    /\ Len(games) = 2
    /\ games[1].id = S_b
    /\ games[2].id = S_a_b

(***************************************************************************)
(* The detail parser                                                       *)
(***************************************************************************)
\* C11: the id and db_url of the item in hand are those it was listed with;
\* once its parse has raised, its info is still empty; every record of the
\* collection comes from a completed parse and so holds a description.
C11_InfoEmptyUntilParsed ==
    /\ g.id = games[i].id
    /\ g.db_url = games[i].db_url
    /\ (pc \in {"handler", "counted"} => g.info = EmptyDict)
    /\ \A n \in DOMAIN games_json : "description" \in DOMAIN games_json[n]

\* the attribute table as read from the rows of exactly two cells
RECURSIVE two_cell_table(_, _)
two_cell_table(rows, info) ==
    IF rows = <<>> THEN info
    ELSE LET row == Head(rows)
         IN  IF Len(row) # 2 THEN two_cell_table(Tail(rows), info)
             ELSE two_cell_table(Tail(rows),
                     dict_update(info,
                        [x \in {key_name(rstrip_colon(row[1].text))} |->
                            IF row[2].a = "href" THEN row[2].href ELSE row[2].text]))

LinksHaveTargets(rows) ==
    \A n \in DOMAIN rows : \A c \in DOMAIN rows[n] : rows[n][c].a # "bare"

\* C14: once the row loop of the first item is over, it has not raised
\* IndexError, and the keys read from the table are those of the rows of
\* exactly two cells, a later row overwriting an earlier one; rows of zero,
\* one or three cells have added nothing.
C14_OddRowsIgnored ==
    (i = 1 /\ ppc \notin {"request", "failed"} /\ LinksHaveTargets(page.rows)) =>
        /\ ~(result.kind = "raise" /\ result.exc = "IndexError")
        /\ table_part(g.info) = two_cell_table(page.rows, EmptyDict)

\* the first stop heading after the node h, 0 when there is none
FirstStopAfter(nodes, h) ==
    LET stops == {n \in DOMAIN nodes : /\ n > h
                                       /\ nodes[n].kind = "tag"
                                       /\ is_stop(nodes, n)}
    IN  IF stops = {} THEN 0 ELSE CHOOSE n \in stops : \A m \in stops : n <= m

\* the nodes after the heading h that end before s and lie in no other such
\* node, in document order
NodesBetween(nodes, h, s) ==
    SelectSeq([k \in 1..Len(nodes) |-> k],
              LAMBDA k : /\ k > subtree_end(nodes, h)
                         /\ subtree_end(nodes, k) < s
                         /\ \A m \in (subtree_end(nodes, h) + 1)..(k - 1) :
                                subtree_end(nodes, m) < k)

Contains(str, sub) ==
    \E k \in 1..(Len(str) - Len(sub) + 1) : SubSeq(str, k, k + Len(sub) - 1) = sub

\* C15: when parse has returned, the description is the markup of the nodes
\* between the Description heading and the first stop heading, each once
\* and in document order, and the markup of the stop heading is not in it.
C15_DescriptionExact ==
    (i = 1 /\ ppc = "returned") =>
        LET nodes == page.nodes
            h == find_description(nodes)
            s == FirstStopAfter(nodes, h)
        IN  /\ g.info.description = str_each(nodes, NodesBetween(nodes, h, s))
            /\ ~Contains(g.info.description, str_node(nodes, s))

\* C19: each turn of the scan moves the heading forward in the document, so
\* the scan ends; it ends at the first stop heading after the Description
\* heading, or with AttributeError when that heading or a stop heading
\* after it is missing.  The error is caught in the loop: the item is
\* counted once, nothing is merged, and the loop goes on to the next item.
C19_ScanTerminates ==
    /\ [][(ppc = "scan" /\ ppc' = "scan") =>
              /\ heading < heading'
              /\ heading' <= Len(page.nodes)]_vars
    /\ [](ppc = "store" =>
              /\ find_description(page.nodes) # 0
              /\ heading = FirstStopAfter(page.nodes, find_description(page.nodes)))
    /\ []((ppc = "raised" /\ result.exc = "AttributeError") =>
              \/ find_description(page.nodes) = 0
              \/ FirstStopAfter(page.nodes, find_description(page.nodes)) = 0)
    /\ [][(ppc = "scan" /\ ppc' = "raised") =>
              /\ pc' = "handler"
              /\ nfailed' = nfailed + 1
              /\ games_json' = games_json]_vars
    /\ (ppc = "scan" ~> ppc \in {"store", "raised"})
    /\ ((ppc = "raised" /\ pc = "handler") ~>
            (pc = "fetch" /\ i = 2 /\ errors = 1 /\ nfailed = 1))

\* the document ended during the scan, after some nodes had been collected;
\* the error has been counted and the loop is at the second item
W_C19 ==
    /\ ppc = "raised"
    /\ result.exc = "AttributeError"
    /\ find_description(page.nodes) # 0
    /\ description # <<>>
    /\ pc = "fetch"
    /\ i = 2
    /\ errors = 1

(***************************************************************************)
(* The order of the crawl                                                  *)
(***************************************************************************)
\* C16: a request is made only for the item in hand, which has not been
\* requested before, and the items requested so far are among the first i
\* of the listing; the loop moves to item i+1 only when item i has been
\* merged (the delay is over) or has failed (the error is counted); inside
\* the loop the collection changes only in update_if_needed of the item in
\* hand after its parse has returned, and the save only reorders it.
C16_Sequential ==
    /\ [][(pc = "fetch" /\ pc' \in {"update", "handler"}) =>
              /\ i \notin fetched
              /\ fetched' = fetched \cup {i}]_vars
    /\ [][fetched' # fetched => pc = "fetch" /\ fetched' = fetched \cup {i}]_vars
    /\ [](fetched \subseteq 1..i)
    /\ [][i' # i => /\ i' = i + 1
                     /\ pc \in {"sleep", "counted"}
                     /\ i \in fetched]_vars
    /\ [][games_json' # games_json =>
              \/ pc = "start"
              \/ /\ pc = "update"
                 /\ i \in fetched
                 /\ g.id = games[i].id
                 /\ "description" \in DOMAIN g.info
                 /\ games_json' = update_if_needed(games_json, g)
              \/ /\ pc = "save"
                 /\ SameRecords(games_json, games_json')]_vars

\* a run over three items, one of which failed and two of which were merged
W_C16 ==
    /\ pc = "done"
    /\ Len(games) = 3
    /\ fetched = {1, 2, 3}
    /\ nfailed = 1
    /\ intr = 0
    /\ Len(games_json) = 2

\* C17: the loop goes from one item to the request of the next only through
\* the delay, whether the earlier item was merged or failed.
C17_DelayBetweenItems ==
    [][(pc' = "fetch" /\ i' = i + 1) => pc = "sleep"]_vars

\* C18: after update_if_needed of a parsed item, the collection holds a
\* record whose id and db_url are those of the item, whatever keys the
\* table of the page had.
C18_RecordKeepsIdentity ==
    (last = "update_if_needed" /\ g.info # EmptyDict) =>
        \E n \in DOMAIN games_json :
            /\ games_json[n]["id"] = g.id
            /\ games_json[n]["db_url"] = g.db_url

====
